---- MODULE Spec2Model ----
(***************************************************************************)
(* The Flask weather front end of src/main.py as a state machine.          *)
(*                                                                         *)
(* State: the rows of the sqlite table "weather" and the record of the     *)
(* request handled last (its inputs, the environment's outcomes and the    *)
(* response).  One action per route handler; a handler runs to completion  *)
(* in one step (the spec's request-per-call model).                        *)
(***************************************************************************)
EXTENDS Integers, Sequences, FiniteSets, TLC

VARIABLES table, last

vars == <<table, last>>

(***************************************************************************)
(* Bounds of the exploration.                                              *)
(***************************************************************************)
MaxRows == 2        \* rows the table may hold under Spec
MaxHistRows == 7    \* rows the table may hold under SpecHist
MaxSamples == 3     \* forecast samples of one provider response (SpecAgg)
MaxTemp == 2        \* temperatures are drawn from 0..MaxTemp

(***************************************************************************)
(* Values.  Python/JSON values that may be a number, None or absent are    *)
(* records [t, v]; strings that the code cuts apart are sequences of       *)
(* one-character strings.                                                  *)
(***************************************************************************)
Num(n) == [t |-> "num", v |-> n]
None == [t |-> "none", v |-> 0]
Absent == [t |-> "absent", v |-> 0]
Str(s) == [t |-> "str", v |-> s]
NoStr == [t |-> "absent", v |-> <<>>]

Whitespace == {" ", "\t"}

Temps == 0..MaxTemp

(***************************************************************************)
(* str.strip(): drops leading and trailing whitespace.                     *)
(***************************************************************************)
RECURSIVE LStrip(_)
LStrip(s) ==
    IF s = <<>> THEN <<>>
    ELSE IF Head(s) \in Whitespace THEN LStrip(Tail(s))
    ELSE s

RECURSIVE RStrip(_)
RStrip(s) ==
    IF s = <<>> THEN <<>>
    ELSE IF s[Len(s)] \in Whitespace THEN RStrip(SubSeq(s, 1, Len(s) - 1))
    ELSE s

StripIdentity(s) == s

Strip(s) == LStrip(RStrip(s))

(***************************************************************************)
(* str.split()[0]: the first whitespace-delimited token; an empty or       *)
(* all-whitespace string has no token (IndexError, reported as <<>>).      *)
(***************************************************************************)
RECURSIVE TakeToken(_)
TakeToken(s) ==
    IF s = <<>> THEN <<>>
    ELSE IF Head(s) \in Whitespace THEN <<>>
    ELSE <<Head(s)>> \o TakeToken(Tail(s))

SplitFirstWhole(s) == s

SplitFirst(s) == TakeToken(LStrip(s))

(***************************************************************************)
(* Python's min(a, b) and max(a, b) on numbers (lines 187-188).            *)
(***************************************************************************)
MinOfWrong(a, b) == IF b > a THEN b ELSE a

MinOf(a, b) == IF b < a THEN b ELSE a

MaxOf(a, b) == IF b > a THEN b ELSE a

(***************************************************************************)
(* The dict "daily" of daily_weather: a sequence of [date, min, max] in    *)
(* insertion order (a Python dict keeps insertion order; assigning to an   *)
(* existing key keeps the key's position).                                 *)
(***************************************************************************)
DictHas(d, k) == \E i \in 1..Len(d) : d[i].date = k

DictIndex(d, k) == CHOOSE i \in 1..Len(d) : d[i].date = k

(***************************************************************************)
(* One iteration of the loop of daily_weather (lines 181-188) on the       *)
(* accumulator acc = [exc, daily].  An exception ends the loop: the later  *)
(* iterations leave acc alone.                                             *)
(***************************************************************************)
DailyStep(acc, item) ==
    IF acc.exc # "none" THEN acc
    ELSE IF item.dt_txt.t = "absent" THEN [acc EXCEPT !.exc = "KeyError: 'dt_txt'"]
    ELSE IF SplitFirst(item.dt_txt.v) = <<>>
         THEN [acc EXCEPT !.exc = "IndexError: list index out of range"]
    ELSE IF item.temp.t = "absent" THEN [acc EXCEPT !.exc = "KeyError: 'temp'"]
    ELSE LET date == SplitFirst(item.dt_txt.v)
             temp == item.temp.v
             d == acc.daily
         IN IF ~DictHas(d, date)
            THEN [acc EXCEPT !.daily =
                      Append(d, [date |-> date, min |-> temp, max |-> temp])]
            ELSE LET i == DictIndex(d, date)
                 IN [acc EXCEPT !.daily =
                         [d EXCEPT ![i] = [date |-> date,
                                           min |-> MinOf(d[i].min, temp),
                                           max |-> MaxOf(d[i].max, temp)]]]

RECURSIVE DailyLoop(_, _)
DailyLoop(acc, raw) ==
    IF raw = <<>> THEN acc
    ELSE DailyLoop(DailyStep(acc, Head(raw)), Tail(raw))

(***************************************************************************)
(* Lines 179-190: the aggregation of the forecast list into daily_list.    *)
(***************************************************************************)
Aggregate(raw) == DailyLoop([exc |-> "none", daily |-> <<>>], raw)

(***************************************************************************)
(* The provider's answers.  A call either raises (network failure,         *)
(* timeout) or returns a status and a body js.  A current-weather body is  *)
(* [kind, main, temp, temp_max, temp_min, weather]; a forecast body is     *)
(* [kind, list].  kind "malformed" is a body resp.json() cannot parse.     *)
(***************************************************************************)
OK == 200

Raised == [kind |-> "raise", status |-> 0, js |-> [kind |-> "none"]]

Answer(st, js) == [kind |-> "resp", status |-> st, js |-> js]

NoCall == [kind |-> "nocall", status |-> 0, js |-> [kind |-> "none"]]

MalformedJs == [kind |-> "malformed"]

CurrentJs(main, temp, weather) ==
    [kind |-> "object", main |-> main, temp |-> temp,
     temp_max |-> IF main = "present" THEN Num(MaxTemp) ELSE Absent,
     temp_min |-> IF main = "present" THEN Num(0) ELSE Absent,
     weather |-> weather]

ForecastJs(list) == [kind |-> "object", list |-> list]

(***************************************************************************)
(* The status test of lines 69, 100, 135, 160 and 176.                     *)
(***************************************************************************)
NotOkOnly404(status) == status = 404

NotOk(status) == status # OK

(***************************************************************************)
(* js.get("main", {}).get("temp") (line 75) and js["main"]["temp"]         *)
(* (line 105): the first yields None for a missing key, the second raises  *)
(* KeyError (reported as exc).                                             *)
(***************************************************************************)
GetTemp(js) ==
    IF js.main = "absent" \/ js.temp.t = "absent" THEN None ELSE js.temp

IndexTemp(js) ==
    IF js.main = "absent" THEN [exc |-> "KeyError: 'main'", val |-> None]
    ELSE IF js.temp.t = "absent" THEN [exc |-> "KeyError: 'temp'", val |-> None]
    ELSE [exc |-> "none", val |-> js.temp]

(***************************************************************************)
(* (js.get("weather") or [{}])[0].get("description", "") (lines 76, 140)   *)
(* and js["weather"][0]["description"] (line 106).                         *)
(***************************************************************************)
GetDescription(js, default) ==
    IF js.weather = "desc" THEN "light rain" ELSE default

IndexDescription(js) ==
    IF js.weather = "absent" THEN [exc |-> "KeyError: 'weather'", val |-> ""]
    ELSE IF js.weather = "empty"
         THEN [exc |-> "IndexError: list index out of range", val |-> ""]
    ELSE IF js.weather = "nodesc"
         THEN [exc |-> "KeyError: 'description'", val |-> ""]
    ELSE [exc |-> "none", val |-> "light rain"]

(***************************************************************************)
(* The table "weather" (lines 33-43): rows [id, city, temperature,         *)
(* description, dt] in insertion order; AUTOINCREMENT gives each row an id *)
(* above every id used before.                                             *)
(***************************************************************************)
NextId(t) == IF t = <<>> THEN 1 ELSE t[Len(t)].id + 1

InsertRow(t, r) ==
    Append(t, [id |-> NextId(t), city |-> r.city, temperature |-> r.temperature,
               description |-> r.description, dt |-> r.dt])

(***************************************************************************)
(* Lines 80-86 and 109-115: get_db(), INSERT, commit(), close().  db is    *)
(* what the database does in this request: "ok", or the statement that     *)
(* raises.  close() is reached only when nothing raised before it; a row   *)
(* is durable only once commit() returned.                                 *)
(***************************************************************************)
DbError == "OperationalError: database is locked"

WriteRowKeepsUncommitted(t, r, db) ==
    IF db = "connect_fail"
    THEN [table |-> t, opened |-> 0, closed |-> 0, exc |-> DbError]
    ELSE IF db = "execute_fail"
    THEN [table |-> t, opened |-> 1, closed |-> 0, exc |-> DbError]
    ELSE IF db = "commit_fail"
    THEN [table |-> InsertRow(t, r), opened |-> 1, closed |-> 0, exc |-> DbError]
    ELSE [table |-> InsertRow(t, r), opened |-> 1, closed |-> 1, exc |-> "none"]

WriteRowUncommitted(t, r, db) ==
    IF db = "connect_fail"
    THEN [table |-> t, opened |-> 0, closed |-> 0, exc |-> DbError]
    ELSE IF db \in {"execute_fail", "commit_fail"}
    THEN [table |-> t, opened |-> 1, closed |-> 0, exc |-> DbError]
    ELSE [table |-> t, opened |-> 1, closed |-> 1, exc |-> "none"]

WriteRow(t, r, db) ==
    IF db = "connect_fail"
    THEN [table |-> t, opened |-> 0, closed |-> 0, exc |-> DbError]
    ELSE IF db \in {"execute_fail", "commit_fail"}
    THEN [table |-> t, opened |-> 1, closed |-> 0, exc |-> DbError]
    ELSE [table |-> InsertRow(t, r), opened |-> 1, closed |-> 1, exc |-> "none"]

(***************************************************************************)
(* What a handler did: the response (status, kind of body, error message,  *)
(* data), the table it leaves, the provider calls it made, the database    *)
(* connections it opened and closed, the exception raised while it ran     *)
(* ("none" if none) and whether that exception left the handler uncaught.  *)
(***************************************************************************)
NoData == [kind |-> "none"]

Result(status, kind, msg, data, t, calls, opened, closed, exc, escaped) ==
    [status |-> status, kind |-> kind, msg |-> msg, data |-> data, table |-> t,
     calls |-> calls, opened |-> opened, closed |-> closed,
     exc |-> exc, escaped |-> escaped]

(***************************************************************************)
(* An exception that leaves a route handler: Flask answers an              *)
(* HTTPException with its own code (BadRequest: 400) and anything else     *)
(* with its generic 500 page.                                              *)
(***************************************************************************)
Escapes(exc, t) ==
    Result(IF exc = "BadRequest" THEN 400 ELSE 500, "flask_error", "", NoData,
           t, 0, 0, 0, exc, TRUE)

RenderError == "TemplateNotFound"

NullStr == [t |-> "none", v |-> <<>>]

(***************************************************************************)
(* index (lines 49-55).  form is the form field "city" (NoStr when the     *)
(* field is missing).  No try block: an exception of render_template       *)
(* leaves the handler.                                                     *)
(***************************************************************************)
Index(method, form, render, t) ==
    LET city == IF form.t = "absent" THEN <<>> ELSE Strip(form.v)
    IN IF method = "POST" /\ city # <<>>
       THEN Result(302, "redirect", "", [kind |-> "redirect", city |-> city],
                   t, 0, 0, 0, "none", FALSE)
       ELSE IF render = "fail" THEN Escapes(RenderError, t)
       ELSE Result(OK, "html", "", [kind |-> "main.html"], t, 0, 0, 0, "none", FALSE)

(***************************************************************************)
(* api_weather (lines 57-89).  body is the request body: "malformed" (not  *)
(* JSON: get_json raises BadRequest), "list" (JSON but no object: .get     *)
(* raises AttributeError) or "object" with the field city (a string, null  *)
(* or missing).  Lines 59-60 are outside the try block.                    *)
(***************************************************************************)
ApiWeather(body, prov, db, now, t) ==
    IF body.kind = "malformed" THEN Escapes("BadRequest", t)
    ELSE IF body.kind = "list"
    THEN Escapes("AttributeError: 'list' object has no attribute 'get'", t)
    ELSE IF body.city.t = "none"
    THEN Escapes("AttributeError: 'NoneType' object has no attribute 'strip'", t)
    ELSE LET city == IF body.city.t = "absent" THEN <<>> ELSE Strip(body.city.v)
         IN IF city = <<>>
            THEN Result(400, "json_error", "City required", NoData,
                        t, 0, 0, 0, "none", FALSE)
            ELSE IF prov.kind = "raise"
            THEN Result(500, "json_error", "ConnectionError", NoData,
                        t, 1, 0, 0, "ConnectionError", FALSE)
            ELSE IF NotOk(prov.status)
            THEN Result(404, "json_error", "City not found or API error", NoData,
                        t, 1, 0, 0, "none", FALSE)
            ELSE IF prov.js.kind = "malformed"
            THEN Result(500, "json_error", "JSONDecodeError", NoData,
                        t, 1, 0, 0, "JSONDecodeError", FALSE)
            ELSE LET out == [kind |-> "record", city |-> city,
                             temperature |-> GetTemp(prov.js),
                             description |-> GetDescription(prov.js, ""),
                             dt |-> now]
                     w == WriteRow(t, out, db)
                 IN IF w.exc # "none"
                    THEN Result(500, "json_error", w.exc, NoData,
                                w.table, 1, w.opened, w.closed, w.exc, FALSE)
                    ELSE Result(OK, "json", "", out,
                                w.table, 1, w.opened, w.closed, "none", FALSE)

(***************************************************************************)
(* show_weather_page (lines 92-124).  city is the URL segment, taken as it *)
(* is.  The template is rendered after the row was committed.              *)
(***************************************************************************)
TextError(exc, t, calls, opened, closed) ==
    Result(500, "text_error", exc, NoData, t, calls, opened, closed, exc, FALSE)

NotFound(t) ==
    Result(404, "text_error", "No data found", NoData, t, 1, 0, 0, "none", FALSE)

ShowWeatherPage(city, prov, db, render, now, t) ==
    IF prov.kind = "raise" THEN TextError("ConnectionError", t, 1, 0, 0)
    ELSE IF NotOk(prov.status) THEN NotFound(t)
    ELSE IF prov.js.kind = "malformed" THEN TextError("JSONDecodeError", t, 1, 0, 0)
    ELSE IF IndexTemp(prov.js).exc # "none"
    THEN TextError(IndexTemp(prov.js).exc, t, 1, 0, 0)
    ELSE IF IndexDescription(prov.js).exc # "none"
    THEN TextError(IndexDescription(prov.js).exc, t, 1, 0, 0)
    ELSE LET row == [kind |-> "record", city |-> city,
                     temperature |-> IndexTemp(prov.js).val,
                     description |-> IndexDescription(prov.js).val,
                     dt |-> now]
             w == WriteRow(t, row, db)
         IN IF w.exc # "none" THEN TextError(w.exc, w.table, 1, w.opened, w.closed)
            ELSE IF render = "fail"
            THEN TextError(RenderError, w.table, 1, w.opened, w.closed)
            ELSE Result(OK, "html", "", row, w.table, 1, w.opened, w.closed,
                        "none", FALSE)

(***************************************************************************)
(* today_weather (lines 127-149): no database access.                      *)
(***************************************************************************)
TodayWeather(city, prov, render, t) ==
    IF prov.kind = "raise" THEN TextError("ConnectionError", t, 1, 0, 0)
    ELSE IF NotOk(prov.status) THEN NotFound(t)
    ELSE IF prov.js.kind = "malformed" THEN TextError("JSONDecodeError", t, 1, 0, 0)
    ELSE IF render = "fail" THEN TextError(RenderError, t, 1, 0, 0)
    ELSE Result(OK, "html", "",
                [kind |-> "today.html", city |-> city,
                 today_high |-> IF prov.js.temp_max.t = "absent" THEN None
                                ELSE prov.js.temp_max,
                 today_low |-> IF prov.js.temp_min.t = "absent" THEN None
                               ELSE prov.js.temp_min,
                 icon |-> GetDescription(prov.js, "sun")],
                t, 1, 0, 0, "none", FALSE)

(***************************************************************************)
(* hourly_weather (lines 152-165): the first 8 entries of the forecast.    *)
(***************************************************************************)
HourlyCount == 8

HourlyWeather(city, prov, render, t) ==
    IF prov.kind = "raise" THEN TextError("ConnectionError", t, 1, 0, 0)
    ELSE IF NotOk(prov.status) THEN NotFound(t)
    ELSE IF prov.js.kind = "malformed" THEN TextError("JSONDecodeError", t, 1, 0, 0)
    ELSE IF render = "fail" THEN TextError(RenderError, t, 1, 0, 0)
    ELSE Result(OK, "html", "",
                [kind |-> "hourly.html", city |-> city,
                 data |-> SubSeq(prov.js.list, 1,
                                 IF Len(prov.js.list) < HourlyCount
                                 THEN Len(prov.js.list) ELSE HourlyCount)],
                t, 1, 0, 0, "none", FALSE)

(***************************************************************************)
(* daily_weather (lines 168-193) and weekly_weather (lines 196-198), which *)
(* calls it.                                                               *)
(***************************************************************************)
DailyWeather(city, prov, render, t) ==
    IF prov.kind = "raise" THEN TextError("ConnectionError", t, 1, 0, 0)
    ELSE IF NotOk(prov.status) THEN NotFound(t)
    ELSE IF prov.js.kind = "malformed" THEN TextError("JSONDecodeError", t, 1, 0, 0)
    ELSE LET agg == Aggregate(prov.js.list)
         IN IF agg.exc # "none" THEN TextError(agg.exc, t, 1, 0, 0)
            ELSE IF render = "fail" THEN TextError(RenderError, t, 1, 0, 0)
            ELSE Result(OK, "html", "",
                        [kind |-> "daily.html", city |-> city, data |-> agg.daily],
                        t, 1, 0, 0, "none", FALSE)

WeeklyWeather(city, prov, render, t) == DailyWeather(city, prov, render, t)

(***************************************************************************)
(* api_history (lines 201-211): SELECT city, temperature, description, dt  *)
(* FROM weather ORDER BY id DESC LIMIT 6.                                  *)
(***************************************************************************)
HistoryLimit == 6

Columns(r) == [city |-> r.city, temperature |-> r.temperature,
               description |-> r.description, dt |-> r.dt]

RECURSIVE Reverse(_)
Reverse(s) == IF s = <<>> THEN <<>> ELSE Append(Reverse(Tail(s)), Head(s))

SelectHistoryOldest(t) ==
    LET n == IF Len(t) < HistoryLimit THEN Len(t) ELSE HistoryLimit
    IN [i \in 1..n |-> Columns(t[i])]

SelectHistory(t) ==
    LET desc == Reverse(t)
        n == IF Len(desc) < HistoryLimit THEN Len(desc) ELSE HistoryLimit
    IN [i \in 1..n |-> Columns(desc[i])]

ApiHistory(db, t) ==
    IF db = "connect_fail"
    THEN Result(500, "json_error", DbError, NoData, t, 0, 0, 0, DbError, FALSE)
    ELSE IF db = "execute_fail"
    THEN Result(500, "json_error", DbError, NoData, t, 0, 1, 0, DbError, FALSE)
    ELSE Result(OK, "json", "", [kind |-> "rows", rows |-> SelectHistory(t)],
                t, 0, 1, 1, "none", FALSE)

(***************************************************************************)
(* Inputs of the requests and outcomes of the environment.                 *)
(***************************************************************************)
FormCities == {NoStr, Str(<<>>), Str(<<" ">>), Str(<<"\t", " ">>),
               Str(<<"a">>), Str(<<" ", "a", " ">>)}

JsonBodies ==
    {[kind |-> "malformed", city |-> NoStr], [kind |-> "list", city |-> NoStr],
     [kind |-> "object", city |-> NullStr]}
    \cup {[kind |-> "object", city |-> c] : c \in FormCities}

UrlCities == {<<"a">>}

Times == {"03-Nov-2026 10:15:00 AM"}

ProviderStatuses == {OK, 401, 404, 500}

CurrentBodies ==
    {MalformedJs,
     CurrentJs("present", Num(1), "desc"),
     CurrentJs("present", Absent, "desc"),
     CurrentJs("absent", Absent, "desc"),
     CurrentJs("present", Num(1), "absent"),
     CurrentJs("present", Num(1), "empty"),
     CurrentJs("present", Num(1), "nodesc")}

CurrentAnswers ==
    {Raised} \cup {Answer(st, MalformedJs) : st \in ProviderStatuses \ {OK}}
             \cup {Answer(OK, js) : js \in CurrentBodies}

GoodAnswer == Answer(OK, CurrentJs("present", Num(1), "desc"))

Sample(dt_txt, temp) == [dt_txt |-> dt_txt, temp |-> temp]

(***************************************************************************)
(* dt_txt of a forecast sample: a date, whitespace, a time ("a", "b" stand *)
(* for dates and "x", "y" for times of day).                               *)
(***************************************************************************)
DtTxts == {<<"a">>, <<"a", " ", "x">>, <<"a", "\t", "y">>,
           <<"b", " ", " ", "y">>, <<"a", "b", " ", "x">>}

Samples == {Sample(Str(d), Num(n)) : d \in DtTxts, n \in Temps}

BadSamples == {Sample(NoStr, Num(0)), Sample(Str(<<"a", " ", "x">>), Absent),
               Sample(Str(<<>>), Num(0)), Sample(Str(<<" ">>), Num(0))}

SeqsUpTo(S, n) == UNION {[1..k -> S] : k \in 0..n}

ForecastLists == SeqsUpTo(Samples, MaxSamples) \cup SeqsUpTo(BadSamples, 1)
                 \cup {<<g, b>> : g \in Samples, b \in BadSamples}

FewForecastLists ==
    {<<>>, <<Sample(Str(<<"a", " ", "x">>), Num(1))>>,
     <<Sample(Str(<<"a", " ", "x">>), Num(1)), Sample(Str(<<"b", " ", "x">>), Num(0))>>,
     <<Sample(Str(<<"a", " ", "x">>), Absent)>>}

ForecastAnswers(Lists) ==
    {Raised} \cup {Answer(st, MalformedJs) : st \in ProviderStatuses}
             \cup {Answer(OK, ForecastJs(l)) : l \in Lists}

WriteOutcomes == {"ok", "connect_fail", "execute_fail", "commit_fail"}

(***************************************************************************)
(* The outcomes a request never consumes are not drawn: the provider is    *)
(* called only for a non-empty city, and the database and the templates    *)
(* are used only after a 200 answer whose body parses.                     *)
(***************************************************************************)
HasCity(body) ==
    body.kind = "object" /\ body.city.t = "str" /\ Strip(body.city.v) # <<>>

Parsed(prov) == prov.kind = "resp" /\ prov.status = OK /\ prov.js.kind = "object"

Only(cond, S) == IF cond THEN S ELSE {"none"}

ReadOutcomes == {"ok", "connect_fail", "execute_fail"}

RenderOutcomes == {"ok", "fail"}

(***************************************************************************)
(* The record of one request: the endpoint, the inputs and outcomes it     *)
(* ran with, and what the handler did.                                     *)
(***************************************************************************)
Request(ep, method, body, city, prov, db, render, now) ==
    [ep |-> ep, method |-> method, body |-> body, city |-> city, prov |-> prov,
     db |-> db, render |-> render, now |-> now]

NoBody == [kind |-> "none", city |-> NoStr]

Served(req, r) ==
    [req |-> req, status |-> r.status, kind |-> r.kind, msg |-> r.msg,
     data |-> r.data, calls |-> r.calls, opened |-> r.opened, closed |-> r.closed,
     exc |-> r.exc, escaped |-> r.escaped, inserted |-> Len(r.table) - Len(table)]

Serve(req, r, cap) ==
    /\ Len(r.table) <= cap
    /\ table' = r.table
    /\ last' = Served(req, r)

Idle ==
    [req |-> Request("none", "", NoBody, NoStr, NoCall, "none", "none", ""),
     status |-> 0, kind |-> "none", msg |-> "", data |-> NoData, calls |-> 0,
     opened |-> 0, closed |-> 0, exc |-> "none", escaped |-> FALSE, inserted |-> 0]

Init == table = <<>> /\ last = Idle

(***************************************************************************)
(* The requests.                                                           *)
(***************************************************************************)
IndexGet ==
    \E render \in RenderOutcomes :
        Serve(Request("index", "GET", NoBody, NoStr, NoCall, "none", render, ""),
              Index("GET", NoStr, render, table), MaxRows)

IndexPost ==
    \E form \in FormCities, render \in RenderOutcomes :
        Serve(Request("index", "POST", NoBody, form, NoCall, "none", render, ""),
              Index("POST", form, render, table), MaxRows)

ApiWeatherOf(Answers, Dbs, cap) ==
    \E body \in JsonBodies :
    \E prov \in IF HasCity(body) THEN Answers ELSE {NoCall} :
    \E db \in Only(Parsed(prov), Dbs), now \in Times :
        Serve(Request("api_weather", "POST", body, body.city, prov, db, "none", now),
              ApiWeather(body, prov, db, now, table), cap)

ShowWeatherPageOf(Answers, Dbs, Renders, cap) ==
    \E city \in UrlCities, prov \in Answers :
    \E db \in Only(Parsed(prov), Dbs) :
    \E render \in Only(db = "ok", Renders), now \in Times :
        Serve(Request("show_weather_page", "GET", NoBody, Str(city), prov, db,
                      render, now),
              ShowWeatherPage(city, prov, db, render, now, table), cap)

ApiWeatherReq == ApiWeatherOf(CurrentAnswers, WriteOutcomes, MaxRows)

ShowWeatherPageReq ==
    ShowWeatherPageOf(CurrentAnswers, WriteOutcomes, RenderOutcomes, MaxRows)

TodayWeatherReq ==
    \E city \in UrlCities, prov \in CurrentAnswers :
    \E render \in Only(Parsed(prov), RenderOutcomes) :
        Serve(Request("today_weather", "GET", NoBody, Str(city), prov, "none",
                      render, ""),
              TodayWeather(city, prov, render, table), MaxRows)

HourlyWeatherReq ==
    \E city \in UrlCities, prov \in ForecastAnswers(FewForecastLists) :
    \E render \in Only(Parsed(prov), RenderOutcomes) :
        Serve(Request("hourly_weather", "GET", NoBody, Str(city), prov, "none",
                      render, ""),
              HourlyWeather(city, prov, render, table), MaxRows)

DailyWeatherOf(Lists, Renders) ==
    \E city \in UrlCities, prov \in ForecastAnswers(Lists) :
    \E render \in Only(Parsed(prov), Renders) :
        Serve(Request("daily_weather", "GET", NoBody, Str(city), prov, "none",
                      render, ""),
              DailyWeather(city, prov, render, table), MaxRows)

WeeklyWeatherOf(Lists, Renders) ==
    \E city \in UrlCities, prov \in ForecastAnswers(Lists) :
    \E render \in Only(Parsed(prov), Renders) :
        Serve(Request("weekly_weather", "GET", NoBody, Str(city), prov, "none",
                      render, ""),
              WeeklyWeather(city, prov, render, table), MaxRows)

DailyWeatherReq == DailyWeatherOf(FewForecastLists, RenderOutcomes)

WeeklyWeatherReq == WeeklyWeatherOf(FewForecastLists, RenderOutcomes)

ApiHistoryOf(Dbs, cap) ==
    \E db \in Dbs :
        Serve(Request("api_history", "GET", NoBody, NoStr, NoCall, db, "none", ""),
              ApiHistory(db, table), cap)

ApiHistoryReq == ApiHistoryOf(ReadOutcomes, MaxRows)

Next ==
    \/ ApiWeatherReq
    \/ IndexGet
    \/ IndexPost
    \/ ShowWeatherPageReq
    \/ TodayWeatherReq
    \/ HourlyWeatherReq
    \/ DailyWeatherReq
    \/ WeeklyWeatherReq
    \/ ApiHistoryReq

Spec == Init /\ [][Next]_vars

(***************************************************************************)
(* The forecast aggregation on its own: one request of the daily or the    *)
(* weekly view, over every forecast list of up to MaxSamples samples.      *)
(***************************************************************************)
Pending(req) == [Idle EXCEPT !.req = req, !.kind = "pending"]

InitAgg ==
    /\ table = <<>>
    /\ last \in {Pending(Request(ep, "GET", NoBody, Str(city), prov, "none", "ok", "")) :
                    ep \in {"daily_weather", "weekly_weather"}, city \in UrlCities,
                    prov \in ForecastAnswers(ForecastLists)}

DailyForecast ==
    /\ last.kind = "pending"
    /\ last.req.ep = "daily_weather"
    /\ Serve(last.req, DailyWeather(last.req.city.v, last.req.prov, "ok", table),
             MaxRows)

WeeklyForecast ==
    /\ last.kind = "pending"
    /\ last.req.ep = "weekly_weather"
    /\ Serve(last.req, WeeklyWeather(last.req.city.v, last.req.prov, "ok", table),
             MaxRows)

NextAgg == DailyForecast \/ WeeklyForecast

SpecAgg == InitAgg /\ [][NextAgg]_vars

(***************************************************************************)
(* The history log on its own: fetches that succeed fill the table up to   *)
(* MaxHistRows rows, and the history is read back at every length.         *)
(***************************************************************************)
HistCities == {Str(<<"a">>), Str(<<"b">>)}

HistFetch ==
    \E c \in HistCities, now \in Times :
        Serve(Request("api_weather", "POST", [kind |-> "object", city |-> c], c,
                      GoodAnswer, "ok", "none", now),
              ApiWeather([kind |-> "object", city |-> c], GoodAnswer, "ok", now, table),
              MaxHistRows)

HistPage ==
    \E render \in RenderOutcomes, now \in Times :
        Serve(Request("show_weather_page", "GET", NoBody, Str(<<"a">>), GoodAnswer,
                      "ok", render, now),
              ShowWeatherPage(<<"a">>, GoodAnswer, "ok", render, now, table),
              MaxHistRows)

HistRead == ApiHistoryOf(ReadOutcomes, MaxHistRows)

NextHist == HistFetch \/ HistPage \/ HistRead

SpecHist == Init /\ [][NextHist]_vars

(***************************************************************************)
(* Properties.                                                             *)
(***************************************************************************)
MinIn(S) == CHOOSE x \in S : \A y \in S : x <= y

(* The date component of a timestamp: what stands before its first         *)
(* whitespace character (the whole string if it has none).                 *)
DatePart(s) ==
    LET ws == {i \in 1..Len(s) : s[i] \in Whitespace}
    IN IF ws = {} THEN s ELSE SubSeq(s, 1, MinIn(ws) - 1)

(* A well-formed sample: a timestamp that starts with its date, and a      *)
(* temperature.                                                            *)
WellFormed(x) ==
    /\ x.dt_txt.t = "str"
    /\ x.dt_txt.v # <<>>
    /\ x.dt_txt.v[1] \notin Whitespace
    /\ x.temp.t = "num"

DailyServed ==
    /\ last.req.ep \in {"daily_weather", "weekly_weather"}
    /\ last.status = OK
    /\ last.kind = "html"

RawOfLast == last.req.prov.js.list

SamplesOf(raw, date) == {i \in 1..Len(raw) : DatePart(raw[i].dt_txt.v) = date}

TempsOf(raw, date) == {raw[i].temp.v : i \in SamplesOf(raw, date)}

(* C1: every DailySummary the daily aggregation emits has as min the least *)
(* and as max the greatest temperature among exactly the input samples     *)
(* whose date component equals the summary's date; so min <= max, both are *)
(* temperatures of samples of that date, and a date with a single sample   *)
(* has min = max = that sample's temperature.                              *)
C1_MinMaxPerDate ==
    DailyServed =>
        \A k \in 1..Len(last.data.data) :
            LET s == last.data.data[k]
                T == TempsOf(RawOfLast, s.date)
            IN /\ T # {}
               /\ s.min \in T /\ \A x \in T : s.min <= x
               /\ s.max \in T /\ \A x \in T : s.max >= x
               /\ s.min <= s.max
               /\ Cardinality(SamplesOf(RawOfLast, s.date)) = 1
                      => s.min = s.max /\ T = {s.min}

(* A date with three samples, not adjacent in the input, whose least and   *)
(* greatest temperatures differ and are not the first sample's.            *)
C1_Witness ==
    /\ DailyServed
    /\ Len(RawOfLast) = 3
    /\ \E k \in 1..Len(last.data.data) :
           /\ Cardinality(SamplesOf(RawOfLast, last.data.data[k].date)) = 2
           /\ last.data.data[k].min < last.data.data[k].max
           /\ last.data.data[k].max # RawOfLast[1].temp.v
    /\ Len(last.data.data) = 2
    /\ DatePart(RawOfLast[1].dt_txt.v) = DatePart(RawOfLast[3].dt_txt.v)

DatesOf(raw) == {DatePart(raw[i].dt_txt.v) : i \in 1..Len(raw)}

FirstIndex(raw, date) == MinIn(SamplesOf(raw, date))

(* C2: the daily aggregation emits exactly one DailySummary per distinct   *)
(* date of the input (none for an empty input), in the order in which the  *)
(* dates first occur in the input, also when dates are interleaved; every  *)
(* list of well-formed samples is aggregated.                              *)
C2_OnePerDateInOrder ==
    /\ DailyServed =>
           LET out == last.data.data
               raw == RawOfLast
           IN /\ Len(out) = Cardinality(DatesOf(raw))
              /\ {out[k].date : k \in 1..Len(out)} = DatesOf(raw)
              /\ \A j, k \in 1..Len(out) :
                     j < k => FirstIndex(raw, out[j].date) < FirstIndex(raw, out[k].date)
    /\ ( /\ last.req.ep \in {"daily_weather", "weekly_weather"}
         /\ last.kind # "pending"
         /\ Parsed(last.req.prov)
         /\ \A i \in 1..Len(RawOfLast) : WellFormed(RawOfLast[i]) )
       => DailyServed

(* Dates interleaved: a, b, a gives the two summaries a, b.                *)
C2_Witness ==
    /\ DailyServed
    /\ Len(RawOfLast) = 3
    /\ DatePart(RawOfLast[1].dt_txt.v) = DatePart(RawOfLast[3].dt_txt.v)
    /\ DatePart(RawOfLast[1].dt_txt.v) # DatePart(RawOfLast[2].dt_txt.v)
    /\ Len(last.data.data) = 2
    /\ last.data.data[1].date = DatePart(RawOfLast[1].dt_txt.v)
    /\ last.data.data[2].date = DatePart(RawOfLast[2].dt_txt.v)

HistoryServed == last.req.ep = "api_history" /\ last.status = OK

(* C3: the table only ever grows by appending one row, and a history read  *)
(* of a table of n rows returns exactly min(6, n) records: the n-th, the   *)
(* (n-1)-th, ... inserted, newest first, duplicates of a city included.    *)
C3_HistoryNewestSix ==
    /\ [](HistoryServed =>
              LET n == Len(table)
                  rows == last.data.rows
              IN /\ Len(rows) = (IF n < 6 THEN n ELSE 6)
                 /\ \A k \in 1..Len(rows) : rows[k] = Columns(table[n - k + 1]))
    /\ [](\A i \in 1..Len(table) : table[i].id = i)
    /\ [][table' = table \/ (Len(table') = Len(table) + 1
                             /\ SubSeq(table', 1, Len(table)) = table)]_vars

(* More than six rows, two cities, one of them fetched twice in a row.     *)
C3_Witness ==
    /\ HistoryServed
    /\ Len(table) = 7
    /\ Len(last.data.rows) = 6
    /\ table[1].city # table[2].city
    /\ table[7].city # table[1].city
    /\ table[6].city = table[7].city

WeatherEndpoints == {"api_weather", "show_weather_page", "today_weather",
                     "hourly_weather", "daily_weather", "weekly_weather"}

FetchSucceeded == last.req.prov.kind = "resp" /\ last.req.prov.status = OK

(* C4 as stated: on every weather endpoint a request whose provider fetch  *)
(* succeeds (and that is answered with success) has appended exactly one   *)
(* row.                                                                    *)
C4_Original ==
    (last.req.ep \in WeatherEndpoints /\ FetchSucceeded /\ last.status = OK)
        => last.inserted = 1

(* C4 as amended: on POST /api/weather and GET /weather/<city> a request   *)
(* whose provider fetch succeeds and that is answered 200 has appended     *)
(* exactly one row, the record it returns; today, hourly, daily and weekly *)
(* never append a row.                                                     *)
C4_Amended ==
    [][ /\ ( /\ last'.req.ep \in {"api_weather", "show_weather_page"}
             /\ last'.status = OK )
           => /\ last'.req.prov.status = OK
              /\ Len(table') = Len(table) + 1
              /\ SubSeq(table', 1, Len(table)) = table
              /\ Columns(table'[Len(table')]) = Columns(last'.data)
        /\ last'.req.ep \in {"today_weather", "hourly_weather", "daily_weather",
                             "weekly_weather", "index", "api_history"}
           => table' = table ]_vars

C4_Witness ==
    /\ last.req.ep = "show_weather_page"
    /\ last.status = OK
    /\ last.inserted = 1
    /\ Len(table) = 2

CityMissingOrBlank(c) ==
    c.t = "absent" \/ (c.t = "str" /\ \A i \in 1..Len(c.v) : c.v[i] \in Whitespace)

(* C5: a request whose city is missing, empty or whitespace-only makes no  *)
(* provider call and inserts no row; POST /api/weather answers it with 400 *)
(* and an error.                                                           *)
C5_BlankCityRejected ==
    /\ ( /\ last.req.ep = "api_weather"
         /\ last.req.body.kind = "object"
         /\ CityMissingOrBlank(last.req.body.city) )
       => /\ last.calls = 0 /\ last.req.prov = NoCall
          /\ last.inserted = 0
          /\ last.status = 400
          /\ last.kind = "json_error" /\ last.msg # ""
    /\ ( /\ last.req.ep = "index"
         /\ last.req.method = "POST"
         /\ CityMissingOrBlank(last.req.city) )
       => /\ last.calls = 0
          /\ last.inserted = 0
          /\ last.kind # "redirect"

C5_Witness ==
    /\ last.req.ep = "api_weather"
    /\ last.req.body.kind = "object"
    /\ last.req.body.city = Str(<<"\t", " ">>)
    /\ last.status = 400
    /\ Len(table) = 1

(* C6: whenever the provider answers with a status other than 200, the     *)
(* request is answered 404 and the provider was called once.               *)
C6_ProviderErrorIs404 ==
    (last.req.prov.kind = "resp" /\ last.req.prov.status # 200)
        => last.status = 404 /\ last.calls = 1

C6_Witness ==
    /\ last.req.ep = "weekly_weather"
    /\ last.req.prov.kind = "resp"
    /\ last.req.prov.status = 500
    /\ last.status = 404

(* C7 as stated: every exception raised while a request is handled is      *)
(* answered with 500 and the exception's message, and none leaves the      *)
(* handler uncaught.                                                       *)
C7_Claim ==
    last.exc # "none"
        => /\ last.status = 500
           /\ last.kind \in {"json_error", "text_error"}
           /\ last.msg = last.exc
           /\ ~last.escaped

(* C8 as stated: every request makes at most one provider call, writes at  *)
(* most one row and closes every database connection it opened.            *)
C8_Claim ==
    /\ last.calls <= 1
    /\ last.inserted <= 1
    /\ last.closed = last.opened

(* C9 as stated: a request answered 400, 404 or 500 leaves the table       *)
(* unchanged.                                                              *)
C9_Original == [][last'.status \in {400, 404, 500} => table' = table]_vars

(* C9 as amended: a request answered 400 or 404 leaves the table           *)
(* unchanged, and so does one answered 500 unless the failure came after   *)
(* the insert was committed (GET /weather/<city> whose template raises):   *)
(* then the one committed row stays.                                       *)
C9_Amended ==
    [][ /\ last'.status \in {400, 404} => table' = table
        /\ (last'.status = 500 /\ table' # table)
           => /\ last'.req.ep = "show_weather_page"
              /\ last'.req.db = "ok"
              /\ last'.req.render = "fail"
              /\ last'.exc = RenderError
              /\ Len(table') = Len(table) + 1
              /\ SubSeq(table', 1, Len(table)) = table ]_vars

C9_Witness ==
    /\ last.req.ep = "show_weather_page"
    /\ last.status = 500
    /\ last.req.render = "fail"
    /\ last.inserted = 1

LacksTemp(js) == js.kind = "object" /\ (js.main = "absent" \/ js.temp.t = "absent")

(* C10 as stated: every row has a non-null temperature; a 200 provider     *)
(* response that lacks main.temp never produces a row; and the row a       *)
(* request persists equals the record it returns.                          *)
C10_Claim ==
    /\ \A i \in 1..Len(table) : table[i].temperature.t = "num"
    /\ ( /\ last.req.ep \in {"api_weather", "show_weather_page"}
         /\ FetchSucceeded
         /\ LacksTemp(last.req.prov.js) )
       => last.inserted = 0
    /\ (last.inserted = 1 /\ last.status = OK)
       => Columns(table[Len(table)]) = Columns(last.data)

====
